---- MODULE Spec2Model ----
(***************************************************************************)
(* Model of the alignment and segmentation core of                         *)
(* hd_gait_detection_with_SSL: sync_data (src/read_data.py) and            *)
(* movingstd, data_windowing (src/preprocessing.py).                       *)
(*                                                                         *)
(* Arrays are sequences (1-based here, 0-based in the source: source      *)
(* index i is sequence position i + 1).  A call is one step: the caller    *)
(* picks the arguments, the function runs to its return or to the          *)
(* exception it raises.  data_windowing works on caller-owned buffers, so  *)
(* its caller first places the arrays in the heap (PrepareWindowing) and   *)
(* the call is a second step that may write buffers.                       *)
(***************************************************************************)
EXTENDS Integers, Sequences, FiniteSets, TLC

VARIABLES pc, call, ret, heap

vars == <<pc, call, ret, heap>>

(* ------------------------------ bounds -------------------------------- *)
MaxAcc == 5
MaxLab == 5
MaxRate == 2
MaxTicks == 4
TicksPerSec == 2
MaxN == 6
MaxW == 3
MaxStdN == 3
MaxWindowSize == 3

(* ------------------------- numpy / python helpers --------------------- *)
Max(a, b) == IF a >= b THEN a ELSE b

Min(a, b) == IF a <= b THEN a ELSE b

\* a[start:] for start >= 0
SliceFrom(a, start) ==
    IF start >= Len(a) THEN <<>> ELSE SubSeq(a, start + 1, Len(a))

\* a[:stop] for stop >= 0
SliceTo(a, stop) ==
    IF stop <= 0 THEN <<>> ELSE SubSeq(a, 1, Min(stop, Len(a)))

\* int(rate * sec) for a non-negative sec given in ticks of 1/TicksPerSec s:
\* python's int() truncates
SecToSamples(rate, ticks) == (rate * ticks) \div TicksPerSec

(* ------------------------------ sync_data ----------------------------- *)
AccFirstIndexSwapped(acc_before, label_before) == Max(0, label_before - acc_before)

\* read_data.py:194  np.maximum(0, acc_time_before_sync_event-label_time_before_sync_event)
acc_first_index(acc_before, label_before) == Max(0, acc_before - label_before)

\* read_data.py:195
video_first_index(acc_before, label_before) == Max(0, label_before - acc_before)

sync_data(acc_data, label_data, chorea_labels, sync_sec, RATE) ==
    LET acc_time_before_sync_event == SecToSamples(RATE, sync_sec[2])
        label_time_before_sync_event == SecToSamples(RATE, sync_sec[1])
        acc1 == SliceFrom(acc_data,
                    acc_first_index(acc_time_before_sync_event,
                                    label_time_before_sync_event))
        vfi == video_first_index(acc_time_before_sync_event,
                                 label_time_before_sync_event)
        label1 == SliceFrom(label_data, vfi)
        chorea1 == SliceFrom(chorea_labels, vfi)
        acc2 == SliceTo(acc1, Len(label1))
        \* time_data[i] = i / RATE + vfi / RATE, kept as an exact fraction
        time_data == [i \in 1..Len(label1) |->
                        [num |-> (i - 1) + vfi, den |-> RATE]]
    IN  [status |-> "returned",
         acc_data |-> acc2,
         label_data |-> label1,
         chorea_labels |-> chorea1,
         time_data |-> time_data]

\* Input streams carry their source index as value, so that a slice can be
\* told from any other selection of samples.
Tagged(n, name) == [i \in 1..n |-> <<name, i - 1>>]

CallSyncData ==
    /\ pc = "idle"
    /\ \E S \in 1..MaxAcc, L \in 1..MaxLab, RATE \in 1..MaxRate,
          t0 \in 0..MaxTicks, t1 \in 0..MaxTicks :
          LET a == [fn |-> "sync_data",
                    acc_data |-> Tagged(S, "acc"),
                    label_data |-> Tagged(L, "label"),
                    chorea_labels |-> Tagged(L, "chorea"),
                    sync_sec |-> <<t0, t1>>,
                    RATE |-> RATE]
          IN  /\ call' = a
              /\ ret' = sync_data(a.acc_data, a.label_data, a.chorea_labels,
                                  a.sync_sec, a.RATE)
    /\ pc' = "done"
    /\ UNCHANGED heap

SyncReturned == call.fn = "sync_data" /\ ret.status = "returned"

\* d = signal_anchor_samples - label_anchor_samples of the call
SyncD ==
    SecToSamples(call.RATE, call.sync_sec[2])
        - SecToSamples(call.RATE, call.sync_sec[1])

\* C1: after every sync_data call the four outputs (signal, category labels,
\* severity labels, time axis) have one common length, and that length is at
\* most min(original signal length, original label length).
C1_OutputsSameLength ==
    SyncReturned =>
        /\ Len(ret.acc_data) = Len(ret.label_data)
        /\ Len(ret.label_data) = Len(ret.chorea_labels)
        /\ Len(ret.chorea_labels) = Len(ret.time_data)
        /\ Len(ret.acc_data)
              <= Min(Len(call.acc_data), Len(call.label_data))

\* C2: sync_data only trims.  Output signal sample i is input signal sample
\* i + max(0, d), output category/severity sample i is input sample
\* i + max(0, -d) (so at most one side is left-trimmed), the label side keeps
\* everything after its left trim, and the signal is right-trimmed to the
\* label length: its length is min(S - max(0, d), label length).
C2_OnlyTrims ==
    SyncReturned =>
        LET da == Max(0, SyncD)
            dl == Max(0, 0 - SyncD)
        IN  /\ \A i \in 1..Len(ret.acc_data) :
                  ret.acc_data[i] = call.acc_data[i + da]
            /\ \A i \in 1..Len(ret.label_data) :
                  ret.label_data[i] = call.label_data[i + dl]
            /\ \A i \in 1..Len(ret.chorea_labels) :
                  ret.chorea_labels[i] = call.chorea_labels[i + dl]
            /\ da = 0 \/ dl = 0
            /\ Len(ret.label_data) = Max(0, Len(call.label_data) - dl)
            /\ Len(ret.chorea_labels) = Max(0, Len(call.chorea_labels) - dl)
            /\ Len(ret.acc_data)
                  = Min(Max(0, Len(call.acc_data) - da), Len(ret.label_data))

\* The shape of the 1000 / 200 / 750 example: d > 0, and the left-trimmed
\* signal is still longer than the label stream, so it is right-trimmed.
C2_Witness ==
    /\ SyncReturned
    /\ SyncD > 0
    /\ Len(call.acc_data) - SyncD > Len(call.label_data)
    /\ Len(ret.acc_data) = Len(call.label_data)
    /\ Len(ret.acc_data) >= 2

(* ---------------------------- data_windowing -------------------------- *)
\* preprocessing.py:146  np.empty((0, 3, window_size)): the channel count
NumChannels == 3

RECURSIVE SumSeq(_)
SumSeq(a) == IF a = <<>> THEN 0 ELSE a[1] + SumSeq(Tail(a))

RECURSIVE SortedSeq(_)
\* the elements of a finite set of integers in increasing order
SortedSeq(S) ==
    IF S = {} THEN <<>>
    ELSE LET m == CHOOSE x \in S : \A y \in S : x <= y
         IN  <<m>> \o SortedSeq(S \ {m})

Count(a, v) == Cardinality({j \in 1..Len(a) : a[j] = v})

IsOne(x) == x = 1

\* a[start:] = v, numpy slice assignment: a negative start counts from the
\* end, and both ends are clipped to the array
SliceAssignFrom(a, start, v) ==
    LET n == Len(a)
        st == IF start < 0 THEN Max(0, n + start) ELSE Min(start, n)
    IN  [i \in 1..n |-> IF i > st THEN v ELSE a[i]]

\* sliding_window_view(x, W, 0) of a 1-D array: row i is x[i .. i+W-1]
sliding_window_view_1d(x, W) ==
    [i \in 1..(Len(x) - W + 1) |-> [j \in 1..W |-> x[i + j - 1]]]

\* sliding_window_view(x, W, 0) of an (N, 3) array: shape (N-W+1, 3, W), the
\* window axis comes last
sliding_window_view_2d(x, W) ==
    [i \in 1..(Len(x) - W + 1) |->
        [c \in 1..NumChannels |-> [j \in 1..W |-> x[i + j - 1][c]]]]

StrideSelectFloor(a, step) ==
    [k \in 1..(Len(a) \div step) |-> a[(k - 1) * step + 1]]

\* a[::step]: rows 0, step, 2*step, ... of a
StrideSelect(a, step) ==
    [k \in 1..((Len(a) + step - 1) \div step) |-> a[(k - 1) * step + 1]]

\* the shape left by .squeeze(): every axis of length 1 is dropped
SqueezedShape(shape) == SelectSeq(shape, LAMBDA d : d # 1)

ArgMaxLast(counts) ==
    CHOOSE i \in 1..Len(counts) :
        /\ \A j \in 1..Len(counts) : counts[j] <= counts[i]
        /\ \A j \in (i + 1)..Len(counts) : counts[j] < counts[i]

\* numpy argmax: the first index of the largest entry
ArgMax(counts) ==
    CHOOSE i \in 1..Len(counts) :
        /\ \A j \in 1..Len(counts) : counts[j] <= counts[i]
        /\ \A j \in 1..(i - 1) : counts[j] < counts[i]

\* scipy.stats.mode of one row: np.unique gives the sorted distinct values
\* and their counts, the mode is the value at the argmax of the counts
ModeOfRow(row) ==
    LET vals == SortedSeq({row[j] : j \in 1..Len(row)})
        counts == [i \in 1..Len(vals) |-> Count(row, vals[i])]
    IN  vals[ArgMax(counts)]

\* preprocessing.py:168  np.sum(windowed_chorea >= 0, axis=1), one row
chorea_valid_samples(row) ==
    Cardinality({j \in 1..Len(row) : row[j] >= 0})

WindowedChoreaSumUnmasked(row) == SumSeq(row)

\* preprocessing.py:169  np.sum(windowed_chorea * (windowed_chorea >= 0), axis=1)
windowed_chorea_sum(row) ==
    SumSeq([j \in 1..Len(row) |-> row[j] * (IF row[j] >= 0 THEN 1 ELSE 0)])

\* preprocessing.py:170  one entry of the list comprehension; the quotient is
\* kept as the exact fraction num / den, and -1 is the fraction -1 / 1
WindowSeverity(row, W) ==
    IF 2 * chorea_valid_samples(row) > W
    THEN [num |-> windowed_chorea_sum(row), den |-> chorea_valid_samples(row)]
    ELSE [num |-> 0 - 1, den |-> 1]

MaskedAlias(h, src) == [buf |-> src, heap |-> h]

\* preprocessing.py:153  std_idx[std_idx == 1]: indexing with a boolean mask
\* allocates a new array holding the selected entries
MaskedCopy(h, src) ==
    [buf |-> "fresh", heap |-> [h EXCEPT !.fresh = SelectSeq(h[src], IsOne)]]

NonOverlapIgnoringOverlap(window_size, window_overlap) == window_size

\* preprocessing.py:151
non_overlap(window_size, window_overlap) == window_size - window_overlap

Raised(h, kind) == [heap |-> h, ret |-> [status |-> kind]]

\* data_windowing on the caller's buffers data, labels, chorea and std_idx of
\* heap h: the heap it leaves and what it returns or raises
data_windowing(h, window_size, window_overlap) ==
    LET stride == non_overlap(window_size, window_overlap)
        m == MaskedCopy(h, "std_idx")
        N == Len(h.data)
        upper_limit == (N \div stride) * stride
        h2 == [m.heap EXCEPT ![m.buf] =
                  SliceAssignFrom(m.heap[m.buf], upper_limit - window_overlap, 0)]
    IN  IF window_size > N
        THEN Raised(h2, "ValueError")     \* sliding_window_view: window too large
        ELSE
        LET windowed_data ==
                StrideSelect(sliding_window_view_2d(h2.data, window_size),
                             stride)
            rows_labels ==
                StrideSelect(sliding_window_view_1d(h2.labels, window_size),
                             stride)
            rows_chorea ==
                StrideSelect(sliding_window_view_1d(h2.chorea, window_size),
                             stride)
            shape == SqueezedShape(<<Len(rows_labels), window_size>>)
        IN  IF Len(shape) = 0
            THEN Raised(h2, "IndexError")  \* line 166: shape[0] of a 0-d array
            ELSE IF Len(shape) < 2
            THEN Raised(h2, "AxisError")   \* line 168: axis=1 of a 1-d array
            ELSE
            [heap |-> h2,
             ret |-> [status |-> "returned",
                      windowed_data_all |-> windowed_data,
                      windowed_labels_all |->
                          [k \in 1..Len(rows_labels) |->
                              <<ModeOfRow(rows_labels[k])>>],
                      windowed_chorea_all |->
                          [k \in 1..Len(rows_chorea) |->
                              <<WindowSeverity(rows_chorea[k],
                                               Len(windowed_data[1][1]))>>],
                      inclusion_idx |-> m.buf,
                      NumWin |-> shape[1]]]

LabelCodes == {0 - 9, 0, 1}

SeverityCodes == {0 - 1, 0, 1, 2}

MaskValues == {0, 1}

Const(n, v) == [i \in 1..n |-> v]

\* The three per-sample streams never meet inside data_windowing, so the
\* caller varies one of them at a time and holds the other two fixed.
WindowingStreams(n) ==
    {[labels |-> l, chorea |-> Const(n, 0 - 1), std_idx |-> Const(n, 1)] :
        l \in [1..n -> LabelCodes]}
    \cup {[labels |-> Const(n, 0), chorea |-> c, std_idx |-> Const(n, 1)] :
        c \in [1..n -> SeverityCodes]}
    \cup {[labels |-> Const(n, 0), chorea |-> Const(n, 0 - 1), std_idx |-> k] :
        k \in [1..n -> MaskValues]}

\* sample i of the signal: channel c holds the tag <<i, c>>
SignalOf(n) ==
    [i \in 1..n |-> [c \in 1..NumChannels |-> <<i - 1, c - 1>>]]

PrepareWindowing ==
    /\ pc = "idle"
    /\ \E n \in 1..MaxN :
          \E st \in WindowingStreams(n) :
              heap' = [data |-> SignalOf(n), labels |-> st.labels,
                       chorea |-> st.chorea, std_idx |-> st.std_idx,
                       fresh |-> <<>>]
    /\ pc' = "ready"
    /\ call' = [fn |-> "prepare"]
    /\ UNCHANGED ret

CallDataWindowing ==
    /\ pc = "ready"
    /\ \E W \in 1..MaxW :
          \E O \in 0..(W - 1) :
              LET r == data_windowing(heap, W, O)
              IN  /\ call' = [fn |-> "data_windowing",
                              data |-> heap.data, labels |-> heap.labels,
                              chorea |-> heap.chorea, std_idx |-> heap.std_idx,
                              window_size |-> W, window_overlap |-> O]
                  /\ heap' = r.heap
                  /\ ret' = r.ret
    /\ pc' = "done"

(* ----------------------- data_windowing: claims ----------------------- *)
WinCalled == call.fn = "data_windowing"

WinReturned == WinCalled /\ ret.status = "returned"

WinN == Len(call.data)

WinW == call.window_size

WinO == call.window_overlap

WinStride == call.window_size - call.window_overlap

\* the first excluded source index, floor(N / stride) * stride - O
WinBoundary == (WinN \div WinStride) * WinStride - WinO

\* the W per-sample values of stream x under window k (k = 1 is the first)
Span(x, k) == [j \in 1..WinW |-> x[(k - 1) * WinStride + j]]

RetMask == heap[ret.inclusion_idx]

C4_WindowsAreConsecutiveSlices ==
    WinReturned =>
        LET wd == ret.windowed_data_all
        IN  /\ \A k \in 1..Len(wd) :
                  /\ Len(wd[k]) = NumChannels
                  /\ \A c \in 1..NumChannels :
                        /\ Len(wd[k][c]) = WinW
                        /\ \A j \in 1..WinW :
                              wd[k][c][j] = call.data[(k - 1) * WinStride + j][c]
            /\ \A k \in 1..(Len(wd) - 1) :
                  \A c \in 1..NumChannels :
                      Cardinality({wd[k][c][j] : j \in 1..WinW}
                                  \cap {wd[k + 1][c][j] : j \in 1..WinW}) = WinO

C4_Witness ==
    /\ WinReturned
    /\ WinO >= 1
    /\ Len(ret.windowed_data_all) >= 3
    /\ ret.windowed_data_all[2][1][1] = call.data[WinStride + 1][1]

\* C5: with v the number of non-negative severity codes among a window's W
\* samples, the window's severity is the exact mean of those codes when
\* v > W/2 and -1 otherwise; the W = 10 example {1,1,2,2,3,0} plus four -1
\* gives 1.5.
C5_SeverityIsMajorityMean ==
    /\ LET e == WindowSeverity(<<1, 1, 0 - 1, 2, 2, 0 - 1, 3, 0, 0 - 1, 0 - 1>>, 10)
       IN  2 * e.num = 3 * e.den /\ e.den > 0
    /\ WinReturned =>
        \A k \in 1..Len(ret.windowed_chorea_all) :
            LET row == Span(call.chorea, k)
                valid == SelectSeq(row, LAMBDA x : x >= 0)
                sev == ret.windowed_chorea_all[k][1]
            IN  IF 2 * Len(valid) > WinW
                THEN sev.den > 0 /\ sev.num * Len(valid) = SumSeq(valid) * sev.den
                ELSE sev.den > 0 /\ sev.num = 0 - sev.den

\* one window with a non-integer mean taken over valid samples only, and one
\* window that is -1 although it holds a valid sample
C5_Witness ==
    /\ WinReturned
    /\ \E k \in 1..Len(ret.windowed_chorea_all) :
          LET sev == ret.windowed_chorea_all[k][1]
          IN  /\ \E j \in 1..WinW : Span(call.chorea, k)[j] < 0
              /\ sev.num > 0
              /\ sev.num % sev.den # 0
    /\ \E k \in 1..Len(ret.windowed_chorea_all) :
          /\ \E j \in 1..WinW : Span(call.chorea, k)[j] >= 0
          /\ ret.windowed_chorea_all[k][1].num < 0

\* C6: a window's category label is the mode of its W per-sample codes, the
\* lowest code among the most frequent ones; so it occurs in the window.
C6_LabelIsLowestMode ==
    WinReturned =>
        \A k \in 1..Len(ret.windowed_labels_all) :
            LET row == Span(call.labels, k)
                lab == ret.windowed_labels_all[k][1]
            IN  /\ \E j \in 1..WinW : row[j] = lab
                /\ \A j \in 1..WinW :
                      /\ Count(row, row[j]) <= Count(row, lab)
                      /\ Count(row, row[j]) = Count(row, lab) => lab <= row[j]

\* a window whose two most frequent codes tie
C6_Witness ==
    /\ WinReturned
    /\ \E k \in 1..Len(ret.windowed_labels_all) :
          LET row == Span(call.labels, k)
              lab == ret.windowed_labels_all[k][1]
          IN  \E j \in 1..WinW :
                  row[j] > lab /\ Count(row, row[j]) = Count(row, lab)

\* C7: the returned mask has one entry per input sample (the length of the
\* supplied mask); its entries at every index >= floor(N/stride)*stride - O
\* are 0 and its entries at all lower indices are the supplied mask's.
C7_MaskKeepsLengthAndHead ==
    WinReturned =>
        /\ Len(RetMask) = Len(call.std_idx)
        /\ \A i \in 1..Len(RetMask) :
              IF i - 1 >= WinBoundary
              THEN RetMask[i] = 0
              ELSE i <= Len(call.std_idx) /\ RetMask[i] = call.std_idx[i]

\* C10: data_windowing leaves the caller's mask, signal, category and
\* severity arrays as they were when it was called, whether it returns or
\* raises; the end-of-series zeros are in the returned mask only.
C10_InputsNotMutated ==
    WinCalled =>
        /\ heap.std_idx = call.std_idx
        /\ heap.data = call.data
        /\ heap.labels = call.labels
        /\ heap.chorea = call.chorea
        /\ ret.status = "returned" =>
              /\ ret.inclusion_idx # "std_idx"
              /\ \A i \in 1..Len(RetMask) :
                    i - 1 >= WinBoundary => RetMask[i] = 0

\* the call zeroed tail entries of the returned mask where the caller's
\* mask still holds 1
C10_Witness ==
    /\ WinReturned
    /\ \E i \in 1..Len(RetMask) :
          /\ i - 1 >= WinBoundary
          /\ RetMask[i] = 0
          /\ heap.std_idx[i] = 1
          /\ call.std_idx[i] = 1

\* the source indices of the samples held by the returned windows
WinCovered ==
    {ret.windowed_data_all[k][1][j][1] :
        k \in 1..Len(ret.windowed_data_all), j \in 1..WinW}

\* C11: the tail-exclusion boundary floor(N/stride)*stride - O is the end
\* (exclusive) of the last returned window: every sample below it lies in a
\* returned window and no sample at or after it lies in one.
C11_BoundaryIsLastWindowEnd ==
    WinReturned =>
        /\ WinBoundary
              = ret.windowed_data_all[Len(ret.windowed_data_all)][1][WinW][1] + 1
        /\ \A i \in 0..(WinN - 1) :
              i < WinBoundary <=> i \in WinCovered

(* ------------------------------ movingstd ----------------------------- *)
LowerLetters ==
    <<"a", "b", "c", "d", "e", "f", "g", "h", "i", "j", "k", "l", "m",
      "n", "o", "p", "q", "r", "s", "t", "u", "v", "w", "x", "y", "z">>

UpperLetters ==
    <<"A", "B", "C", "D", "E", "F", "G", "H", "I", "J", "K", "L", "M",
      "N", "O", "P", "Q", "R", "S", "T", "U", "V", "W", "X", "Y", "Z">>

\* str.lower() / str.upper(); a string is the sequence of its characters
LowerChar(c) ==
    IF \E i \in 1..Len(UpperLetters) : UpperLetters[i] = c
    THEN LowerLetters[CHOOSE i \in 1..Len(UpperLetters) : UpperLetters[i] = c]
    ELSE c

UpperChar(c) ==
    IF \E i \in 1..Len(LowerLetters) : LowerLetters[i] = c
    THEN UpperLetters[CHOOSE i \in 1..Len(LowerLetters) : LowerLetters[i] = c]
    ELSE c

Lower(str) == [i \in 1..Len(str) |-> LowerChar(str[i])]

Upper(str) == [i \in 1..Len(str) |-> UpperChar(str[i])]

Capitalized(str) ==
    [i \in 1..Len(str) |-> IF i = 1 THEN UpperChar(str[i]) ELSE str[i]]

central == <<"c", "e", "n", "t", "r", "a", "l">>

forward == <<"f", "o", "r", "w", "a", "r", "d">>

backward == <<"b", "a", "c", "k", "w", "a", "r", "d">>

\* preprocessing.py:48
valid == {central, forward, backward}

\* np.convolve(a, v, mode='same'): the centred max(len(a), len(v)) entries
\* of the full convolution, which has len(a) + len(v) - 1 entries
ConvolveSame(a, v) ==
    LET n == Len(a)
        m == Len(v)
        full == [k \in 1..(n + m - 1) |->
                    SumSeq([i \in 1..n |->
                        IF k - i + 1 >= 1 /\ k - i + 1 <= m
                        THEN a[i] * v[k - i + 1] ELSE 0])]
        first == (Min(n, m) - 1) \div 2
    IN  [i \in 1..Max(n, m) |-> full[first + i]]

Ones(n) == [i \in 1..n |-> 1]

\* preprocessing.py:64 for samples whose norm is a whole number
Magnitude(sample) ==
    LET q == sample[1] * sample[1] + sample[2] * sample[2]
                 + sample[3] * sample[3]
    IN  CHOOSE r \in 0..q : r * r = q

\* The moving statistic before its square root, entry by entry, as the exact
\* fraction (sum(x^2) - sum(x)^2 / width) / (width - 1).  The source centres
\* and scales the series first and scales the result back (lines 66-68, 90):
\* in exact arithmetic the two cancel, and the square root and the scaling
\* act entry by entry, so the result has the entries of this sequence.
MovingVariance(x, width) ==
    LET B == Ones(width)
        c2 == ConvolveSame([i \in 1..Len(x) |-> x[i] * x[i]], B)
        c1 == ConvolveSame(x, B)
    IN  [i \in 1..Len(c2) |->
            [num |-> width * c2[i] - c1[i] * c1[i],
             den |-> width * (width - 1)]]

movingstd(data, window_size, windowmode) ==
    IF windowmode.type # "str" \/ Lower(windowmode.chars) \notin valid
    THEN [status |-> "ValueError"]
    ELSE
    LET mode == Lower(windowmode.chars)
        n == Len(data)
    IN  IF window_size.type # "int" \/ window_size.val < 1
        THEN [status |-> "ValueError"]
        ELSE IF mode = central /\ window_size.val < 1
        THEN [status |-> "ValueError"]
        ELSE IF (mode # central /\ window_size.val < 2) \/ n < window_size.val
        THEN [status |-> "ValueError"]
        ELSE
        LET x == [i \in 1..n |-> Magnitude(data[i])]
        IN  [status |-> "returned",
             mode |-> mode,
             value |-> IF mode = central
                       THEN MovingVariance(x, 2 * window_size.val + 1)
                       ELSE MovingVariance(x, window_size.val)]

Prefixes(w) == {SubSeq(w, 1, n) : n \in 1..Len(w)}

\* the selectors a caller may pass: every non-empty prefix of a mode word in
\* lower, upper and capitalized case, strings that are no prefix, and a
\* value that is no string
Selectors ==
    LET pre == UNION {Prefixes(w) : w \in valid}
        strs == pre \cup {Upper(q) : q \in pre} \cup {Capitalized(q) : q \in pre}
                    \cup {<<>>, <<"x">>, <<"c", "x">>, central \o <<"s">>}
    IN  {[type |-> "str", chars |-> q] : q \in strs}
            \cup {[type |-> "int", chars |-> <<>>]}

WindowSizes ==
    {[type |-> "int", val |-> k] : k \in 0..MaxWindowSize}
        \cup {[type |-> "float", val |-> k] : k \in 1..2}

StdSamples == {<<1, 0, 0>>, <<2, 1, 2>>}

CallMovingStd ==
    /\ pc = "idle"
    /\ \E n \in 1..MaxStdN :
          \E data \in [1..n -> StdSamples], ws \in WindowSizes,
             wm \in Selectors :
              /\ call' = [fn |-> "movingstd", data |-> data,
                          window_size |-> ws, windowmode |-> wm]
              /\ ret' = movingstd(data, ws, wm)
    /\ pc' = "done"
    /\ UNCHANGED heap

StdCalled == call.fn = "movingstd"

\* C8: every centred-mode call that passes validation returns exactly n
\* values, one per input sample, also when 2*window_size + 1 > n.
C8_CenteredKeepsLength ==
    (StdCalled /\ ret.status = "returned" /\ ret.mode = central) =>
        Len(ret.value) = Len(call.data)

\* the mode word a selector names as a case-insensitive non-empty prefix
SelectedModes(wm) ==
    IF wm.type # "str" THEN {}
    ELSE {w \in valid : Lower(wm.chars) \in Prefixes(w)}

\* C9: the selector is accepted case-insensitively and as any non-empty
\* prefix of a mode word; the call raises exactly when the selector matches
\* no mode, or the window size is no integer, is below the mode's minimum
\* (1 centred, 2 otherwise) or exceeds the series length.
C9_RaisesIffNoPrefixMatch ==
    StdCalled =>
        LET ms == SelectedModes(call.windowmode)
            ws == call.window_size
            bad_size ==
                \/ ws.type # "int"
                \/ ws.val < 1
                \/ (central \notin ms /\ ws.val < 2)
                \/ ws.val > Len(call.data)
        IN  /\ ret.status = "ValueError" <=> (ms = {} \/ bad_size)
            /\ ret.status = "returned" => ret.mode \in ms

(* ------------------------------ system -------------------------------- *)
EmptyHeap ==
    [data |-> <<>>, labels |-> <<>>, chorea |-> <<>>, std_idx |-> <<>>,
     fresh |-> <<>>]

Init ==
    /\ pc = "idle"
    /\ call = [fn |-> "none"]
    /\ ret = [status |-> "none"]
    /\ heap = EmptyHeap

Next ==
    \/ CallSyncData
    \/ PrepareWindowing
    \/ CallDataWindowing
    \/ CallMovingStd

Spec == Init /\ [][Next]_vars

====
